---- MODULE Spec2Model ----
(***************************************************************************)
(* Model of web/pgadmin/browser/server_groups/servers/databases/schemas/   *)
(* utils.py: DataTypeReader, trigger_definition, parse_rule_definition and *)
(* VacuumSettings.                                                          *)
(*                                                                         *)
(* Python strings are sequences of one-character strings, so that find,    *)
(* startswith, endswith, slicing, rstrip and the regular expressions are   *)
(* computed character by character as the code computes them.              *)
(***************************************************************************)
EXTENDS Integers, Sequences, FiniteSets, TLC

VARIABLES call, reader, manager

vars == <<call, reader, manager>>

(***************************************************************************)
(* Bounds of the model.                                                    *)
(***************************************************************************)
MaxTgtype == 255
MaxDims == 2
MaxPrec == 2
MaxScale == 4
MaxRows == 2

(***************************************************************************)
(* Python string primitives.                                               *)
(***************************************************************************)
Min(S) == CHOOSE x \in S : \A y \in S : x <= y

Max(S) == CHOOSE x \in S : \A y \in S : x >= y

\* s[a:b] for 0 <= a, b (0-based, half-open), clipped as Python clips it
Slice(s, a, b) == SubSeq(s, a + 1, IF b > Len(s) THEN Len(s) ELSE b)

\* s[a:]
SliceFrom(s, a) == SubSeq(s, a + 1, Len(s))

\* whether sub occurs in s at 0-based offset i
MatchAt(s, sub, i) ==
    /\ i >= 0
    /\ i + Len(sub) <= Len(s)
    /\ \A k \in 1..Len(sub) : s[i + k] = sub[k]

\* str.find: the lowest 0-based offset of sub in s, or -1
Find(s, sub) ==
    LET hits == {i \in 0..Len(s) : MatchAt(s, sub, i)}
    IN  IF hits = {} THEN -1 ELSE Min(hits)

StartsWith(s, sub) == MatchAt(s, sub, 0)

EndsWith(s, sub) == Len(sub) <= Len(s) /\ MatchAt(s, sub, Len(s) - Len(sub))

\* str.rstrip(chars): drops every trailing character that is in the set chars
RStrip(s, chars) ==
    LET keep == {i \in 1..Len(s) : s[i] \notin chars}
    IN  IF keep = {} THEN <<>> ELSE SubSeq(s, 1, Max(keep))

Digits == <<"0", "1", "2", "3", "4", "5", "6", "7", "8", "9">>

IsDigit(c) == \E d \in 1..10 : Digits[d] = c

RECURSIVE NatToStr(_)
NatToStr(n) ==
    IF n < 10 THEN <<Digits[n + 1]>>
    ELSE NatToStr(n \div 10) \o <<Digits[(n % 10) + 1]>>

\* str(int)
IntToStr(n) == IF n < 0 THEN <<"-">> \o NatToStr(0 - n) ELSE NatToStr(n)

\* n copies of s
RECURSIVE Repeat(_, _)
Repeat(s, n) == IF n <= 0 THEN <<>> ELSE s \o Repeat(s, n - 1)

\* Python's x & mask as a truth value, for a mask that is a power of two
\* (\div is floor division, as Python's integers behave under &)
AndMask(x, mask) == (x \div mask) % 2 = 1

(***************************************************************************)
(* trigger_definition                                                       *)
(***************************************************************************)
TRIGGER_TYPE_ROW == 2 ^ 0

TRIGGER_TYPE_BEFORE == 2 ^ 1

TRIGGER_TYPE_INSERT == 2 ^ 2

TRIGGER_TYPE_DELETE == 2 ^ 3

TRIGGER_TYPE_UPDATE == 2 ^ 4

TRIGGER_TYPE_TRUNCATE == 2 ^ 5

TRIGGER_TYPE_INSTEAD == 2 ^ 6

\* the decode with INSTEAD tested before BEFORE
trigger_definition_instead_first(data) ==
    [tgtype |-> data.tgtype,
     fires |-> IF AndMask(data.tgtype, TRIGGER_TYPE_INSTEAD) THEN "INSTEAD OF"
               ELSE IF AndMask(data.tgtype, TRIGGER_TYPE_BEFORE) THEN "BEFORE"
               ELSE "AFTER",
     is_row_trigger |-> AndMask(data.tgtype, TRIGGER_TYPE_ROW),
     evnt_insert |-> AndMask(data.tgtype, TRIGGER_TYPE_INSERT),
     evnt_delete |-> AndMask(data.tgtype, TRIGGER_TYPE_DELETE),
     evnt_update |-> AndMask(data.tgtype, TRIGGER_TYPE_UPDATE),
     evnt_truncate |-> AndMask(data.tgtype, TRIGGER_TYPE_TRUNCATE)]

trigger_definition(data) ==
    [tgtype |-> data.tgtype,
     fires |-> IF AndMask(data.tgtype, TRIGGER_TYPE_BEFORE) THEN "BEFORE"
               ELSE IF AndMask(data.tgtype, TRIGGER_TYPE_INSTEAD) THEN "INSTEAD OF"
               ELSE "AFTER",
     is_row_trigger |-> AndMask(data.tgtype, TRIGGER_TYPE_ROW),
     evnt_insert |-> AndMask(data.tgtype, TRIGGER_TYPE_INSERT),
     evnt_delete |-> AndMask(data.tgtype, TRIGGER_TYPE_DELETE),
     evnt_update |-> AndMask(data.tgtype, TRIGGER_TYPE_UPDATE),
     evnt_truncate |-> AndMask(data.tgtype, TRIGGER_TYPE_TRUNCATE)]

(***************************************************************************)
(* DataTypeReader.get_length_precision                                      *)
(*                                                                         *)
(* An identifier is an OID or a name: <<"oid", 1560, <<>>>> or             *)
(* <<"name", 0, name>>.                                                    *)
(***************************************************************************)
Oid(n) == <<"oid", n, <<>>>>

Name(s) == <<"name", 0, s>>

\* Python truthiness of an OID or a name
Truthy(id) == IF id[1] = "oid" THEN id[2] /= 0 ELSE id[3] /= <<>>

TypesL ==
    {Oid(1560), Name(<<"b", "i", "t">>),
     Oid(1561), Name(<<"b", "i", "t", "[", "]">>),
     Oid(1562), Name(<<"v", "a", "r", "b", "i", "t">>), Name(<<"b", "i", "t", " ", "v", "a", "r", "y", "i", "n", "g">>),
     Oid(1563), Name(<<"v", "a", "r", "b", "i", "t", "[", "]">>), Name(<<"b", "i", "t", " ", "v", "a", "r", "y", "i", "n", "g", "[", "]">>),
     Oid(1042), Name(<<"b", "p", "c", "h", "a", "r">>), Name(<<"c", "h", "a", "r", "a", "c", "t", "e", "r">>),
     Oid(1043), Name(<<"v", "a", "r", "c", "h", "a", "r">>), Name(<<"c", "h", "a", "r", "a", "c", "t", "e", "r", " ", "v", "a", "r", "y", "i", "n", "g">>),
     Oid(1014), Name(<<"b", "p", "c", "h", "a", "r", "[", "]">>), Name(<<"c", "h", "a", "r", "a", "c", "t", "e", "r", "[", "]">>),
     Oid(1015), Name(<<"v", "a", "r", "c", "h", "a", "r", "[", "]">>), Name(<<"c", "h", "a", "r", "a", "c", "t", "e", "r", " ", "v", "a", "r", "y", "i", "n", "g", "[", "]">>)}

TypesD ==
    {Oid(1083), Name(<<"t", "i", "m", "e">>), Name(<<"t", "i", "m", "e", " ", "w", "i", "t", "h", "o", "u", "t", " ", "t", "i", "m", "e", " ", "z", "o", "n", "e">>),
     Oid(1114), Name(<<"t", "i", "m", "e", "s", "t", "a", "m", "p">>),
     Name(<<"t", "i", "m", "e", "s", "t", "a", "m", "p", " ", "w", "i", "t", "h", "o", "u", "t", " ", "t", "i", "m", "e", " ", "z", "o", "n", "e">>),
     Oid(1115), Name(<<"t", "i", "m", "e", "s", "t", "a", "m", "p", "[", "]">>),
     Name(<<"t", "i", "m", "e", "s", "t", "a", "m", "p", " ", "w", "i", "t", "h", "o", "u", "t", " ", "t", "i", "m", "e", " ", "z", "o", "n", "e", "[", "]">>),
     Oid(1183), Name(<<"t", "i", "m", "e", "[", "]">>),
     Name(<<"t", "i", "m", "e", " ", "w", "i", "t", "h", "o", "u", "t", " ", "t", "i", "m", "e", " ", "z", "o", "n", "e", "[", "]">>),
     Oid(1184), Name(<<"t", "i", "m", "e", "s", "t", "a", "m", "p", "t", "z">>),
     Name(<<"t", "i", "m", "e", "s", "t", "a", "m", "p", " ", "w", "i", "t", "h", " ", "t", "i", "m", "e", " ", "z", "o", "n", "e">>),
     Oid(1185), Name(<<"t", "i", "m", "e", "s", "t", "a", "m", "p", "t", "z", "[", "]">>),
     Name(<<"t", "i", "m", "e", "s", "t", "a", "m", "p", " ", "w", "i", "t", "h", " ", "t", "i", "m", "e", " ", "z", "o", "n", "e", "[", "]">>),
     Oid(1186), Name(<<"i", "n", "t", "e", "r", "v", "a", "l">>),
     Oid(1187), Name(<<"i", "n", "t", "e", "r", "v", "a", "l", "[", "]">>), Name(<<"i", "n", "t", "e", "r", "v", "a", "l", "[", "]">>),
     Oid(1266), Name(<<"t", "i", "m", "e", "t", "z">>), Name(<<"t", "i", "m", "e", " ", "w", "i", "t", "h", " ", "t", "i", "m", "e", " ", "z", "o", "n", "e">>),
     Oid(1270), Name(<<"t", "i", "m", "e", "t", "z">>), Name(<<"t", "i", "m", "e", " ", "w", "i", "t", "h", " ", "t", "i", "m", "e", " ", "z", "o", "n", "e", "[", "]">>)}

TypesP ==
    {Oid(1231), Name(<<"n", "u", "m", "e", "r", "i", "c", "[", "]">>),
     Oid(1700), Name(<<"n", "u", "m", "e", "r", "i", "c">>)}

\* the classification with the final else leaving typeval empty
typeval_else_empty(elemoid_or_name) ==
    IF ~Truthy(elemoid_or_name) THEN ""
    ELSE IF elemoid_or_name \in TypesL THEN "L"
    ELSE IF elemoid_or_name \in TypesD THEN "D"
    ELSE IF elemoid_or_name \in TypesP THEN "P"
    ELSE ""

\* lines 165-198
typeval_of(elemoid_or_name) ==
    IF ~Truthy(elemoid_or_name) THEN ""
    ELSE IF elemoid_or_name \in TypesL THEN "L"
    ELSE IF elemoid_or_name \in TypesD THEN "D"
    ELSE IF elemoid_or_name \in TypesP THEN "P"
    ELSE " "

get_length_precision(elemoid_or_name) ==
    LET typeval == typeval_of(elemoid_or_name)
        precision == (typeval = "P")
        length == precision \/ typeval \in {"L", "D"}
    IN  <<length, precision, typeval>>

(***************************************************************************)
(* DataTypeReader.get_full_type                                             *)
(*                                                                         *)
(* A result is [raised |-> FALSE, value |-> string], or raised |-> TRUE    *)
(* when the code lets an exception escape.                                 *)
(***************************************************************************)
\* Python's None where a string is expected
None == <<"None">>

Returned(v) == [raised |-> FALSE, value |-> v]

Raised(e) == [raised |-> TRUE, value |-> e]

\* typname[i]: one character, IndexError when i is past the end
CharAt(typname, i) ==
    IF i < Len(typname) THEN Returned(<<typname[i + 1]>>)
    ELSE Raised(<<"I", "n", "d", "e", "x", "E", "r", "r", "o", "r">>)

\* lines 224-229: the name left once the schema prefix is skipped
skip_schema(schema, typname) ==
    IF Find(typname, schema \o <<"\"", ".">>) >= 0
        THEN CharAt(typname, Len(schema) + 3)
    ELSE IF Find(typname, schema \o <<".">>) >= 0
        THEN CharAt(typname, Len(schema) + 1)
    ELSE Returned(typname)

\* lines 231-242: the array markers and the quotes are stripped;
\* returns the name and the number of dimensions
strip_name(name0, numdims0) ==
    LET u == StartsWith(name0, <<"_">>)
        nd1 == IF u /\ numdims0 = 0 THEN 1 ELSE numdims0
        name1 == IF u THEN SliceFrom(name0, 1) ELSE name0
        b == EndsWith(name1, <<"[", "]">>)
        nd2 == IF b /\ nd1 = 0 THEN 1 ELSE nd1
        name2 == IF b THEN Slice(name1, 0, Len(name1) - 2) ELSE name1
        q == StartsWith(name2, <<"\"">>) /\ EndsWith(name2, <<"\"">>)
        \* name[1:-1]; a lone quote gives the empty string
        name3 == IF q THEN SubSeq(name2, 2, Len(name2) - 1) ELSE name2
    IN  [name |-> name3, numdims |-> nd2]

\* lines 244-247
array_suffix(numdims) == IF numdims > 0 THEN Repeat(<<"[", "]">>, numdims) ELSE <<>>

TypmodVerbatim ==
    {<<"t", "i", "m", "e">>, <<"t", "i", "m", "e", "t", "z">>, <<"t", "i", "m", "e", " ", "w", "i", "t", "h", "o", "u", "t", " ", "t", "i", "m", "e", " ", "z", "o", "n", "e">>,
     <<"t", "i", "m", "e", " ", "w", "i", "t", "h", " ", "t", "i", "m", "e", " ", "z", "o", "n", "e">>, <<"t", "i", "m", "e", "s", "t", "a", "m", "p">>, <<"t", "i", "m", "e", "s", "t", "a", "m", "p", "t", "z">>,
     <<"t", "i", "m", "e", "s", "t", "a", "m", "p", " ", "w", "i", "t", "h", "o", "u", "t", " ", "t", "i", "m", "e", " ", "z", "o", "n", "e">>, <<"t", "i", "m", "e", "s", "t", "a", "m", "p", " ", "w", "i", "t", "h", " ", "t", "i", "m", "e", " ", "z", "o", "n", "e">>,
     <<"b", "i", "t">>, <<"b", "i", "t", " ", "v", "a", "r", "y", "i", "n", "g">>, <<"v", "a", "r", "b", "i", "t">>}

\* a decode of numeric that forgets to take the header's 4 off
numeric_length_raw(typmod) ==
    IntToStr(typmod \div 65536) \o <<",">> \o IntToStr(typmod % 65536)

\* lines 252-256: (typmod - 4) >> 16 and (typmod - 4) & 0xffff
numeric_length(typmod) ==
    IntToStr((typmod - 4) \div 65536) \o <<",">> \o IntToStr((typmod - 4) % 65536)

\* lines 249-286
length_suffix(name, typmod) ==
    IF typmod = -1 THEN <<>>
    ELSE IF name = <<"n", "u", "m", "e", "r", "i", "c">> THEN <<"(">> \o numeric_length(typmod) \o <<")">>
    ELSE IF name \in TypmodVerbatim THEN <<"(">> \o IntToStr(typmod) \o <<")">>
    ELSE IF name = <<"i", "n", "t", "e", "r", "v", "a", "l">> THEN <<"(">> \o IntToStr(typmod % 65536) \o <<")">>
    ELSE IF name = <<"d", "a", "t", "e">> THEN <<>>
    ELSE <<"(">> \o IntToStr(typmod - 4) \o <<")">>

\* lines 288-299
compose_type(schema, name, length, array) ==
    IF name = <<"c", "h", "a", "r">> /\ schema = <<"p", "g", "_", "c", "a", "t", "a", "l", "o", "g">> THEN <<"\"", "c", "h", "a", "r", "\"">> \o array
    ELSE IF name = <<"t", "i", "m", "e", " ", "w", "i", "t", "h", " ", "t", "i", "m", "e", " ", "z", "o", "n", "e">>
        THEN <<"t", "i", "m", "e">> \o length \o <<" ", "w", "i", "t", "h", " ", "t", "i", "m", "e", " ", "z", "o", "n", "e">> \o array
    ELSE IF name = <<"t", "i", "m", "e", " ", "w", "i", "t", "h", "o", "u", "t", " ", "t", "i", "m", "e", " ", "z", "o", "n", "e">>
        THEN <<"t", "i", "m", "e">> \o length \o <<" ", "w", "i", "t", "h", "o", "u", "t", " ", "t", "i", "m", "e", " ", "z", "o", "n", "e">> \o array
    ELSE IF name = <<"t", "i", "m", "e", "s", "t", "a", "m", "p", " ", "w", "i", "t", "h", " ", "t", "i", "m", "e", " ", "z", "o", "n", "e">>
        THEN <<"t", "i", "m", "e", "s", "t", "a", "m", "p">> \o length \o <<" ", "w", "i", "t", "h", " ", "t", "i", "m", "e", " ", "z", "o", "n", "e">> \o array
    ELSE IF name = <<"t", "i", "m", "e", "s", "t", "a", "m", "p", " ", "w", "i", "t", "h", "o", "u", "t", " ", "t", "i", "m", "e", " ", "z", "o", "n", "e">>
        THEN <<"t", "i", "m", "e", "s", "t", "a", "m", "p">> \o length \o <<" ", "w", "i", "t", "h", "o", "u", "t", " ", "t", "i", "m", "e", " ", "z", "o", "n", "e">> \o array
    ELSE name \o length \o array

\* the name, the length suffix and the array suffix get_full_type computes
full_type_parts(nsp, typname, numdims, typmod) ==
    LET schema == IF nsp /= None THEN nsp ELSE <<>>
        skipped == skip_schema(schema, typname)
        st == strip_name(skipped.value, numdims)
    IN  [raised |-> skipped.raised,
         schema |-> schema,
         name |-> st.name,
         length |-> length_suffix(st.name, typmod),
         array |-> array_suffix(st.numdims)]

get_full_type(nsp, typname, isDup, numdims, typmod) ==
    LET p == full_type_parts(nsp, typname, numdims, typmod)
    IN  IF p.raised THEN Raised(<<"I", "n", "d", "e", "x", "E", "r", "r", "o", "r">>)
        ELSE Returned(compose_type(p.schema, p.name, p.length, p.array))

(***************************************************************************)
(* DataTypeReader.parse_type_name                                           *)
(***************************************************************************)
\* the length of the run of digits of s that starts at 1-based position i
RECURSIVE DigitRun(_, _)
DigitRun(s, i) ==
    IF i <= Len(s) /\ IsDigit(s[i]) THEN 1 + DigitRun(s, i + 1) ELSE 0

\* re.sub(r'(\(\d+\))', '', s), scanning from 1-based position i
RECURSIVE SubParenDigits(_, _)
SubParenDigits(s, i) ==
    IF i > Len(s) THEN <<>>
    ELSE LET n == DigitRun(s, i + 1)
         IN  IF s[i] = "(" /\ n >= 1 /\ i + n + 1 <= Len(s) /\ s[i + n + 1] = ")"
                 THEN SubParenDigits(s, i + n + 2)
             ELSE <<s[i]>> \o SubParenDigits(s, i + 1)

\* s[:idx] for idx /= 0; a negative idx counts from the end
SliceTo(s, idx) ==
    IF idx >= 0 THEN Slice(s, 0, idx)
    ELSE SubSeq(s, 1, Len(s) + idx)

\* type_name.rstrip('[]'): every trailing bracket goes
strip_array(type_name) == RStrip(type_name, {"[", "]"})

parse_type_name(type_name0) ==
    LET is_array == EndsWith(type_name0, <<"[", "]">>)
        type_name1 == IF is_array THEN strip_array(type_name0) ELSE type_name0
        idx == Find(type_name1, <<"(">>)
        type_name2 ==
            IF idx /= 0 /\ EndsWith(type_name1, <<")">>)
                THEN SliceTo(type_name1, idx)
            ELSE IF idx /= 0 /\ StartsWith(type_name1, <<"t", "i", "m", "e">>)
                THEN IF Find(type_name1, <<")">>) /= 1
                         THEN SubParenDigits(type_name1, 1)
                     ELSE type_name1
            ELSE type_name1
    IN  IF is_array THEN type_name2 \o <<"[", "]">> ELSE type_name2

(***************************************************************************)
(* parse_rule_definition                                                    *)
(*                                                                         *)
(* The four regular expressions, matched as Python's re.search matches     *)
(* them: the leftmost start, each greedy quantifier as long as the rest    *)
(* of the pattern allows.  A match is [found |-> TRUE, group |-> string].  *)
(***************************************************************************)
\* \s
IsSpace(c) == c \in {" ", "\n", "\t"}

NoMatch == [found |-> FALSE, group |-> <<>>]

Match(g) == [found |-> TRUE, group |-> g]

\* the number of whitespace characters of s from 0-based offset i on
RECURSIVE SpaceRun(_, _)
SpaceRun(s, i) ==
    IF i < Len(s) /\ IsSpace(s[i + 1]) THEN 1 + SpaceRun(s, i + 1) ELSE 0

\* \s+ then the literal: whitespace from offset b up to the literal
SpaceThen(s, b, close) ==
    LET n == SpaceRun(s, b)
    IN  n >= 1 /\ MatchAt(s, close, b + n)

\* . matches anything but a newline: no newline in s[a:b]
NoNewline(s, a, b) == \A k \in (a + 1)..b : s[k] /= "\n"

\* the ends b of a group (.*) that starts at offset a and is followed by
\* \s+ and the closing literal
GroupEnds(s, a, close) ==
    {b \in a..Len(s) : NoNewline(s, a, b) /\ SpaceThen(s, b, close)}

\* the starts a of the group after the opening literal at offset i and \s+
GroupStarts(s, i, open, close) ==
    {a \in (i + Len(open) + 1)..(i + Len(open) + SpaceRun(s, i + Len(open))) :
        GroupEnds(s, a, close) /= {}}

\* re.search(open \s+ (.*) \s+ close, s)
SearchBetween(s, open, close) ==
    LET starts == {i \in 0..Len(s) :
                      MatchAt(s, open, i) /\ GroupStarts(s, i, open, close) /= {}}
    IN  IF starts = {} THEN NoMatch
        ELSE LET i == Min(starts)
                 a == Max(GroupStarts(s, i, open, close))
                 b == Max(GroupEnds(s, a, close))
             IN  Match(Slice(s, a, b))

\* re.search(r"\s+(INSTEAD)\s+", s)
SearchInstead(s) ==
    LET w == <<"I", "N", "S", "T", "E", "A", "D">>
    IN  IF \E i \in 1..Len(s) :
               /\ IsSpace(s[i])
               /\ MatchAt(s, w, i)
               /\ SpaceRun(s, i + Len(w)) >= 1
        THEN Match(w) ELSE NoMatch

\* re.search(r"(?:DO\s+)(?:INSTEAD\s+)?((.|\n)*)", s)
SearchStatements(s) ==
    LET d == <<"D", "O">>
        w == <<"I", "N", "S", "T", "E", "A", "D">>
        starts == {i \in 0..Len(s) : MatchAt(s, d, i) /\ SpaceRun(s, i + 2) >= 1}
    IN  IF starts = {} THEN NoMatch
        ELSE LET i == Min(starts)
                 q == i + 2 + SpaceRun(s, i + 2)
                 n == SpaceRun(s, q + Len(w))
             IN  IF MatchAt(s, w, q) /\ n >= 1
                     THEN Match(SliceFrom(s, q + Len(w) + n))
                 ELSE Match(SliceFrom(s, q))

UpperLetters == <<"A", "B", "C", "D", "E", "F", "G", "H", "I", "J", "K", "L", "M", "N", "O", "P", "Q", "R", "S", "T", "U", "V", "W", "X", "Y", "Z">>

LowerLetters == <<"a", "b", "c", "d", "e", "f", "g", "h", "i", "j", "k", "l", "m", "n", "o", "p", "q", "r", "s", "t", "u", "v", "w", "x", "y", "z">>

LowerChar(c) ==
    IF \E k \in 1..26 : UpperLetters[k] = c
        THEN LowerLetters[CHOOSE k \in 1..26 : UpperLetters[k] = c]
    ELSE c

UpperChar(c) ==
    IF \E k \in 1..26 : LowerLetters[k] = c
        THEN UpperLetters[CHOOSE k \in 1..26 : LowerLetters[k] = c]
    ELSE c

\* str.lower()
Lower(s) == [k \in 1..Len(s) |-> LowerChar(s[k])]

\* str.capitalize(): the first character upper-cased, the rest lower-cased
Capitalize(s) ==
    [k \in 1..Len(s) |-> IF k = 1 THEN UpperChar(s[k]) ELSE LowerChar(s[k])]

\* internal_server_error(errormsg=...)
internal_server_error(errormsg) == [error |-> TRUE, errormsg |-> errormsg]

parse_rule_definition(res) ==
    IF Len(res.rows) = 0
        THEN internal_server_error(<<"l", "i", "s", "t", " ", "i", "n", "d", "e", "x", " ", "o", "u", "t", " ", "o", "f", " ", "r", "a", "n", "g", "e">>)
    ELSE LET res_data == res.rows[1]
             data_def == res_data.definition
             e_match == SearchBetween(data_def, <<"O", "N">>, <<"T", "O">>)
             event == IF e_match.found THEN e_match.group ELSE <<>>
             inst_match == SearchInstead(data_def)
             condition_match == SearchBetween(data_def, <<"W", "H", "E", "R", "E">>, <<"D", "O">>)
             condition == IF condition_match.found
                              THEN condition_match.group ELSE <<>>
             statement_match == SearchStatements(data_def)
             statement == IF statement_match.found
                              THEN statement_match.group ELSE <<>>
         IN  [error |-> FALSE,
              definition |-> data_def,
              event |-> Capitalize(Lower(event)),
              do_instead |-> inst_match.found,
              statements |-> statement,
              condition |-> condition]

(***************************************************************************)
(* DataTypeReader.get_types                                                 *)
(*                                                                         *)
(* The executor's reply is [status |-> TRUE, rset |-> [rows |-> rows]] or   *)
(* [status |-> FALSE, rset |-> message].  A call's outcome records the      *)
(* statements handed to the executor, in order.                             *)
(***************************************************************************)
\* the object has no data_type_template_path attribute yet
Unset == <<"Unset">>

\* lines 109-115: the template path for a server flavor and version
template_path_for(mgr) ==
    <<"d", "a", "t", "a", "t", "y", "p", "e", "/", "s", "q", "l", "/">> \o
        (IF mgr.server_type = "gpdb"
             THEN <<"#">> \o <<"g", "p", "d", "b">> \o <<"#">> \o IntToStr(mgr.version) \o <<"#">>
         ELSE <<"#">> \o IntToStr(mgr.version) \o <<"#">>)

\* a reader that works the path out again on every call
path_recomputed(rdr, mgr) == template_path_for(mgr)

\* lines 108-115: the path is set only when the object has none yet
path_in_use(rdr, mgr) ==
    IF rdr.data_type_template_path = Unset THEN template_path_for(mgr)
    ELSE rdr.data_type_template_path

\* lines 116-121: "/".join([path, 'get_types.sql']) rendered with the arguments
get_types_sql(path, condition, add_serials, schema_oid) ==
    [template |-> path \o <<"/">> \o <<"g", "e", "t", "_", "t", "y", "p", "e", "s", ".", "s", "q", "l">>,
     condition |-> condition,
     add_serials |-> add_serials,
     schema_oid |-> schema_oid]

\* bounds with the date branch and the character branch exchanged
bounds_of_swapped(length, precision, typeval) ==
    IF ~length THEN <<0, 0>>
    ELSE LET min_val == IF typeval = "D" THEN 1 ELSE 0
         IN  IF precision THEN <<min_val, 1000>>
             ELSE IF min_val /= 0 THEN <<min_val, 2147483647>>
             ELSE <<min_val, 10>>

\* lines 131-147: min_val and max_val
bounds_of(length, precision, typeval) ==
    IF ~length THEN <<0, 0>>
    ELSE LET min_val == IF typeval = "D" THEN 0 ELSE 1
         IN  IF precision THEN <<min_val, 1000>>
             ELSE IF min_val /= 0 THEN <<min_val, 2147483647>>
             ELSE <<min_val, 10>>

\* the local variable typeval before any row has assigned it
Unbound == "<unbound>"

UnboundLocalError ==
    "local variable 'typeval' referenced before assignment"

\* lines 126-159: the loop over the rows from row i on; typeval is a local of
\* the whole function, so it keeps the value an earlier row gave it
RECURSIVE types_loop(_, _, _, _)
types_loop(rows, i, typeval, res) ==
    IF i > Len(rows) THEN <<TRUE, res>>
    ELSE LET row == rows[i]
             has == Truthy(row.elemoid)
             lp == get_length_precision(row.elemoid)
             length == IF has THEN lp[1] ELSE FALSE
             precision == IF has THEN lp[2] ELSE FALSE
             tv == IF has THEN lp[3] ELSE typeval
             mm == bounds_of(length, precision, tv)
         IN  IF tv = Unbound THEN <<FALSE, UnboundLocalError>>
             ELSE types_loop(rows, i + 1, tv,
                     Append(res,
                            [label |-> row.typname, value |-> row.typname,
                             typval |-> tv, precision |-> precision,
                             length |-> length, min_val |-> mm[1],
                             max_val |-> mm[2],
                             is_collatable |-> row.is_collatable]))

\* a get_types that runs the statement again when the executor fails
get_types_retry(rdr, mgr, condition, add_serials, schema_oid, reply) ==
    LET path == path_in_use(rdr, mgr)
        SQL == get_types_sql(path, condition, add_serials, schema_oid)
    IN  [path |-> path,
         executed |-> IF reply.status THEN <<SQL>> ELSE <<SQL, SQL>>,
         result |-> IF ~reply.status THEN <<reply.status, reply.rset>>
                    ELSE types_loop(reply.rset.rows, 1, Unbound, <<>>)]

\* lines 94-159
get_types(rdr, mgr, condition, add_serials, schema_oid, reply) ==
    LET path == path_in_use(rdr, mgr)
        SQL == get_types_sql(path, condition, add_serials, schema_oid)
    IN  [path |-> path,
         executed |-> <<SQL>>,
         result |-> IF ~reply.status THEN <<reply.status, reply.rset>>
                    ELSE types_loop(reply.rset.rows, 1, Unbound, <<>>)]

(***************************************************************************)
(* VacuumSettings                                                           *)
(*                                                                         *)
(* Python values are <<type, n, e, s>>: None, an int n, a str s (a         *)
(* sequence of characters) or a float, kept as n / 10^e with no trailing   *)
(* zero in n when e > 0.                                                   *)
(***************************************************************************)
PyNone == <<"none", 0, 0, <<>>>>

PyInt(n) == <<"int", n, 0, <<>>>>

PyStr(s) == <<"str", 0, 0, s>>

PyFloat(n, e) == <<"float", n, e, <<>>>>

\* the key 'value' is not in the row
Absent == <<"absent", 0, 0, <<>>>>

ValueError == <<"ValueError", 0, 0, <<>>>>

\* Python truthiness
PyTruthy(v) ==
    CASE v[1] = "none" -> FALSE
      [] v[1] = "int" -> v[2] /= 0
      [] v[1] = "float" -> v[2] /= 0
      [] v[1] = "str" -> v[4] /= <<>>

AllDigits(s) == Len(s) >= 1 /\ \A k \in 1..Len(s) : IsDigit(s[k])

DigitValue(c) == (CHOOSE d \in 1..10 : Digits[d] = c) - 1

RECURSIVE DigitsToNat(_)
DigitsToNat(s) ==
    IF s = <<>> THEN 0
    ELSE (DigitsToNat(SubSeq(s, 1, Len(s) - 1)) * 10) + DigitValue(s[Len(s)])

\* n / 10^e without the trailing zeros of the fraction
RECURSIVE NormFloat(_, _)
NormFloat(n, e) ==
    IF e > 0 /\ n % 10 = 0 THEN NormFloat(n \div 10, e - 1) ELSE PyFloat(n, e)

\* int(v) for an int or a str of decimal digits with an optional sign
py_int(v) ==
    IF v[1] = "int" THEN v
    ELSE IF v[1] = "str" /\ AllDigits(v[4]) THEN PyInt(DigitsToNat(v[4]))
    ELSE IF v[1] = "str" /\ Len(v[4]) >= 2 /\ v[4][1] = "-" /\ AllDigits(Tail(v[4]))
        THEN PyInt(0 - DigitsToNat(Tail(v[4])))
    ELSE ValueError

\* float of the characters digits[.digits], or ValueError
float_of_digits(s) ==
    IF AllDigits(s) THEN PyFloat(DigitsToNat(s), 0)
    ELSE IF Find(s, <<".">>) >= 0
        THEN LET dot == Find(s, <<".">>)
                 whole == Slice(s, 0, dot)
                 frac == SliceFrom(s, dot + 1)
             IN  IF /\ (whole = <<>> \/ AllDigits(whole))
                    /\ (frac = <<>> \/ AllDigits(frac))
                    /\ whole \o frac /= <<>>
                     THEN NormFloat(DigitsToNat(whole \o frac), Len(frac))
                 ELSE ValueError
    ELSE ValueError

\* float(v) for an int or a str of a decimal number with an optional sign
py_float(v) ==
    IF v[1] = "int" THEN PyFloat(v[2], 0)
    ELSE IF v[1] = "str" /\ Len(v[4]) >= 2 /\ v[4][1] = "-"
        THEN LET f == float_of_digits(Tail(v[4]))
             IN  IF f = ValueError THEN ValueError ELSE PyFloat(0 - f[2], f[3])
    ELSE IF v[1] = "str" THEN float_of_digits(v[4])
    ELSE ValueError

\* lines 577-580: float for a 'number' column, int for any other
coerce(column_type, v) ==
    IF column_type = "number" THEN py_float(v) ELSE py_int(v)

\* vacuum_fields.json: each sub-mapping is kept in the order of its keys, as
\* a sequence of [key, name, label, column_type]
Field(key, name, label, column_type) ==
    [key |-> key, name |-> name, label |-> label, column_type |-> column_type]

HasKey(mapping, key) == \E k \in 1..Len(mapping) : mapping[k].key = key

Lookup(mapping, key) ==
    mapping[CHOOSE k \in 1..Len(mapping) : mapping[k].key = key]

Keys(mapping) == [k \in 1..Len(mapping) |-> mapping[k].key]

F_threshold ==
    Field("autovacuum_vacuum_threshold", "autovacuum_vacuum_threshold",
          "VACUUM base threshold", "integer")

F_scale ==
    Field("autovacuum_vacuum_scale_factor", "autovacuum_vacuum_scale_factor",
          "VACUUM scale factor", "number")

F_age ==
    Field("autovacuum_freeze_max_age", "autovacuum_freeze_max_age",
          "FREEZE maximum age", "integer")

\* the documents render_template can return for vacuum_fields.json
VacuumFields ==
    {[table |-> <<F_threshold, F_scale>>, toast |-> <<F_threshold, F_scale>>],
     [table |-> <<F_threshold, F_scale>>, toast |-> <<F_threshold, F_age>>],
     [table |-> <<F_threshold, F_scale>>,
      toast |-> <<F_threshold,
                  Field("autovacuum_vacuum_scale_factor",
                        "autovacuum_vacuum_scale_factor",
                        "VACUUM scale factor", "integer")>>]}

\* lines 493-496: the defaults query restricted to the keys of a sub-mapping
vacuum_sql(mapping) ==
    [template |-> "vacuum_settings/sql/vacuum_defaults.sql",
     columns |-> Keys(mapping)]

KeyError == "KeyError"

\* a call that returned v, or let the exception e escape
Ret(v) == [raised |-> FALSE, value |-> v, error |-> ""]

Exc(e) == [raised |-> TRUE, value |-> <<>>, error |-> e]

\* lines 502-506 and 535-539: each row gets name and label from names and
\* column_type from types, looked up under the row's setting name
RECURSIVE label_rows(_, _, _, _)
label_rows(rows, i, names, types) ==
    IF i > Len(rows) THEN Ret(rows)
    ELSE LET row_name == rows[i].name
         IN  IF ~HasKey(names, row_name) \/ ~HasKey(types, row_name)
                 THEN Exc(KeyError)
             ELSE label_rows(
                     [rows EXCEPT ![i] =
                         [name |-> Lookup(names, row_name).name,
                          label |-> Lookup(names, row_name).label,
                          column_type |-> Lookup(types, row_name).column_type,
                          setting |-> rows[i].setting,
                          value |-> rows[i].value]],
                     i + 1, names, types)

\* lines 477-508
get_vacuum_table_settings(vacuum_fields, reply) ==
    LET SQL == vacuum_sql(vacuum_fields.table)
        labelled == label_rows(reply.rset.rows, 1, vacuum_fields.table,
                               vacuum_fields.table)
    IN  [executed |-> <<SQL>>,
         result |-> IF ~reply.status
                        THEN Ret(internal_server_error(reply.rset))
                    ELSE IF labelled.raised THEN labelled
                    ELSE Ret([rows |-> labelled.value])]

\* lines 510-541: name and label come from the toast sub-mapping, column_type
\* from the table sub-mapping
get_vacuum_toast_settings(vacuum_fields, reply) ==
    LET SQL == vacuum_sql(vacuum_fields.toast)
        labelled == label_rows(reply.rset.rows, 1, vacuum_fields.toast,
                               vacuum_fields.table)
    IN  [executed |-> <<SQL>>,
         result |-> IF ~reply.status
                        THEN Ret(internal_server_error(reply.rset))
                    ELSE IF labelled.raised THEN labelled
                    ELSE Ret([rows |-> labelled.value])]

\* a toast guard that tests for None alone, as the table guard does
override_applies_not_none(type, v) == v[1] /= "none"

\* lines 576 and 591: whether the override v is applied
override_applies(type, v) ==
    IF type = "table" THEN v[1] /= "none"
    ELSE PyTruthy(v) /\ v[1] /= "none"

\* lines 572-573 and 585-588: the key of the override in result
override_key(type, name) ==
    IF type = "table" THEN name ELSE "toast_" \o name

\* lines 570-596: the loop over the rows from row i on
RECURSIVE vacuum_loop(_, _, _, _, _)
vacuum_loop(rows, i, mapping, result, type) ==
    IF i > Len(rows) THEN Ret(rows)
    ELSE IF ~HasKey(mapping, rows[i].name) THEN Exc(KeyError)
    ELSE LET f == Lookup(mapping, rows[i].name)
             key == override_key(type, f.name)
         IN  IF key \notin DOMAIN result THEN Exc(KeyError)
             ELSE LET applies == override_applies(type, result[key])
                      value == coerce(f.column_type, result[key])
                  IN  IF applies /\ value = ValueError THEN Exc("ValueError")
                      ELSE vacuum_loop(
                              [rows EXCEPT ![i] =
                                  [name |-> f.name,
                                   label |-> f.label,
                                   column_type |-> f.column_type,
                                   setting |-> IF applies THEN value
                                               ELSE rows[i].setting,
                                   value |-> IF applies THEN value
                                             ELSE rows[i].value]],
                              i + 1, mapping, result, type)

\* lines 543-598; the callers pass the literals 'table' and 'toast', for
\* which the identity tests of lines 570 and 583 are equality tests
parse_vacuum_data(vacuum_fields, reply, result, type) ==
    LET SQL == vacuum_sql(vacuum_fields[type])
    IN  [executed |-> <<SQL>>,
         result |-> IF ~reply.status
                        THEN Ret(internal_server_error(reply.rset))
                    ELSE vacuum_loop(reply.rset.rows, 1, vacuum_fields[type],
                                     result, type)]

(***************************************************************************)
(* The state.  call is the request being served, with its arguments and    *)
(* its result, or Idle between requests; reader is the DataTypeReader       *)
(* object (its data_type_template_path attribute, Unset until get_types     *)
(* sets it); manager is the server manager the object refers to.            *)
(***************************************************************************)
Idle == [op |-> "idle"]

Schemas == {None, <<"p", "u", "b", "l", "i", "c">>, <<"p", "g", "_", "c", "a", "t", "a", "l", "o", "g">>}

\* the names get_length_precision knows, without the array forms
BaseTypeNames ==
    {<<"b", "i", "t">>, <<"v", "a", "r", "b", "i", "t">>, <<"b", "i", "t", " ", "v", "a", "r", "y", "i", "n", "g">>, <<"b", "p", "c", "h", "a", "r">>, <<"c", "h", "a", "r", "a", "c", "t", "e", "r">>,
     <<"v", "a", "r", "c", "h", "a", "r">>, <<"c", "h", "a", "r", "a", "c", "t", "e", "r", " ", "v", "a", "r", "y", "i", "n", "g">>, <<"t", "i", "m", "e">>,
     <<"t", "i", "m", "e", " ", "w", "i", "t", "h", "o", "u", "t", " ", "t", "i", "m", "e", " ", "z", "o", "n", "e">>, <<"t", "i", "m", "e", "s", "t", "a", "m", "p">>,
     <<"t", "i", "m", "e", "s", "t", "a", "m", "p", " ", "w", "i", "t", "h", "o", "u", "t", " ", "t", "i", "m", "e", " ", "z", "o", "n", "e">>, <<"t", "i", "m", "e", "s", "t", "a", "m", "p", "t", "z">>,
     <<"t", "i", "m", "e", "s", "t", "a", "m", "p", " ", "w", "i", "t", "h", " ", "t", "i", "m", "e", " ", "z", "o", "n", "e">>, <<"i", "n", "t", "e", "r", "v", "a", "l">>, <<"t", "i", "m", "e", "t", "z">>,
     <<"t", "i", "m", "e", " ", "w", "i", "t", "h", " ", "t", "i", "m", "e", " ", "z", "o", "n", "e">>, <<"n", "u", "m", "e", "r", "i", "c">>}

\* other names the catalog hands over
OtherTypeNames ==
    {<<"i", "n", "t", "e", "g", "e", "r">>, <<"d", "a", "t", "e">>, <<"c", "h", "a", "r">>, <<"_", "i", "n", "t", "4">>, <<"t", "e", "x", "t", "[", "]">>, <<"\"", "M", "y", "T", "y", "p", "e", "\"">>,
     <<"p", "u", "b", "l", "i", "c", ".", "n", "u", "m", "e", "r", "i", "c">>, <<"p", "u", "b", "l", "i", "c", ".", "\"", "n", "u", "m", "e", "r", "i", "c", "\"">>, <<"p", "u", "b", "l", "i", "c", ".", "v", "a", "r", "c", "h", "a", "r">>,
     <<"p", "g", "_", "c", "a", "t", "a", "l", "o", "g", ".", "b", "i", "t">>, <<"p", "u", "b", "l", "i", "c", ".">>}

TypeNames == BaseTypeNames \cup OtherTypeNames

Typmods ==
    {-1, 0, 3, 655364, 655368}
        \cup {4 + (p * 65536) + s : p \in 0..MaxPrec, s \in 0..MaxScale}

Identifiers ==
    TypesL \cup TypesD \cup TypesP
        \cup {Oid(0), Oid(16), Oid(23), Oid(1082), Oid(1269), Oid(1701),
               Name(<<>>), Name(<<"i", "n", "t", "e", "g", "e", "r">>), Name(<<"t", "i", "m", "e", "t", "z", "[", "]">>),
               Name(<<"t", "e", "x", "t">>)}

Events == {<<"I", "N", "S", "E", "R", "T">>, <<"U", "P", "D", "A", "T", "E">>, <<"D", "E", "L", "E", "T", "E">>, <<"S", "E", "L", "E", "C", "T">>}

Conditions == {<<>>, <<"(", "c", "o", "n", "d", ")">>, <<"(", "o", "l", "d", ".", "a", " ", ">", " ", "1", ")">>}

Statements ==
    {<<"(", "s", "t", "m", "t", ")", ";">>, <<"N", "O", "T", "H", "I", "N", "G", ";">>, <<"N", "O", "T", "I", "F", "Y", " ", "t", ";">>,
     <<"(", " ", "D", "E", "L", "E", "T", "E", " ", "F", "R", "O", "M", " ", "u", ";", "\n", " ", "I", "N", "S", "E", "R", "T", " ", "I", "N", "T", "O", " ", "v", " ", "D", "E", "F", "A", "U", "L", "T", " ", "V", "A", "L", "U", "E", "S", ";", "\n", ")", ";">>,
     <<"U", "P", "D", "A", "T", "E", " ", "u", " ", "S", "E", "T", " ", "n", "o", "t", "e", " ", "=", " ", "'", "u", "s", "e", " ", "b", " ", "I", "N", "S", "T", "E", "A", "D", " ", "o", "f", " ", "a", "'", ";">>,
     <<"U", "P", "D", "A", "T", "E", " ", "u", " ", "S", "E", "T", " ", "n", "o", "t", "e", " ", "=", " ", "'", "m", "o", "v", "e", "d", " ", "T", "O", " ", "a", "r", "c", "h", "i", "v", "e", "'", ";">>}

\* CREATE RULE r AS ON <event> TO t [WHERE <cond>] DO [INSTEAD] <stmts>
RuleText(event, cond, instead, stmts) ==
    <<"C", "R", "E", "A", "T", "E", " ", "R", "U", "L", "E", " ", "r", " ", "A", "S", " ", "O", "N", " ">> \o event \o <<" ", "T", "O", " ", "t">>
        \o (IF cond = <<>> THEN <<>> ELSE <<" ", "W", "H", "E", "R", "E", " ">> \o cond)
        \o <<" ", "D", "O", " ">>
        \o (IF instead THEN <<"I", "N", "S", "T", "E", "A", "D", " ">> ELSE <<>>)
        \o stmts

Init ==
    /\ call = Idle
    /\ reader = [data_type_template_path |-> Unset]
    /\ manager = [server_type |-> "pg", version |-> 90600]

TriggerDefinition(tgtype) ==
    /\ call = Idle
    /\ call' = [op |-> "trigger_definition",
                tgtype |-> tgtype,
                data |-> trigger_definition([tgtype |-> tgtype])]
    /\ UNCHANGED <<reader, manager>>

GetLengthPrecision(id) ==
    /\ call = Idle
    /\ call' = [op |-> "get_length_precision",
                elemoid_or_name |-> id,
                result |-> get_length_precision(id)]
    /\ UNCHANGED <<reader, manager>>

GetFullType(nsp, typname, isDup, numdims, typmod) ==
    /\ call = Idle
    /\ call' = [op |-> "get_full_type",
                nsp |-> nsp, typname |-> typname, numdims |-> numdims,
                typmod |-> typmod,
                parts |-> full_type_parts(nsp, typname, numdims, typmod),
                result |-> get_full_type(nsp, typname, isDup, numdims, typmod)]
    /\ UNCHANGED <<reader, manager>>

\* the formatted name is handed to parse_type_name
ParseTypeName ==
    /\ call.op = "get_full_type"
    /\ ~call.result.raised
    /\ call' = [op |-> "parse_type_name",
                nsp |-> call.nsp, typname |-> call.typname,
                numdims |-> call.numdims, typmod |-> call.typmod,
                parts |-> call.parts,
                type_name |-> call.result.value,
                result |-> parse_type_name(call.result.value)]
    /\ UNCHANGED <<reader, manager>>

ParseRuleDefinition(event, cond, instead, stmts) ==
    /\ call = Idle
    /\ call' = [op |-> "parse_rule_definition",
                event |-> event, cond |-> cond, instead |-> instead,
                stmts |-> stmts,
                result |-> parse_rule_definition(
                    [rows |-> <<[definition |->
                                    RuleText(event, cond, instead, stmts)]>>])]
    /\ UNCHANGED <<reader, manager>>

ParseRuleNoRows ==
    /\ call = Idle
    /\ call' = [op |-> "parse_rule_definition_norows",
                result |-> parse_rule_definition([rows |-> <<>>])]
    /\ UNCHANGED <<reader, manager>>

\* the request ends
Return ==
    /\ call /= Idle
    /\ call' = Idle
    /\ UNCHANGED <<reader, manager>>

PureNext ==
    \/ \E tgtype \in 0..MaxTgtype : TriggerDefinition(tgtype)
    \/ \E id \in Identifiers : GetLengthPrecision(id)
    \/ \E nsp \in Schemas, typname \in TypeNames, numdims \in 0..MaxDims,
          typmod \in Typmods :
            GetFullType(nsp, typname, FALSE, numdims, typmod)
    \/ ParseTypeName
    \/ \E event \in Events, cond \in Conditions, instead \in BOOLEAN,
          stmts \in Statements :
            ParseRuleDefinition(event, cond, instead, stmts)
    \/ ParseRuleNoRows
    \/ Return

PureSpec == Init /\ [][PureNext]_vars

(***************************************************************************)
(* The requests that run a query, and the specification of the program.     *)
(***************************************************************************)
Managers ==
    [server_type : {"pg", "gpdb"}, version : {90600, 110000}]

\* rows of the get_types query
TypeRows ==
    {[typname |-> "bit", elemoid |-> Oid(1560), is_collatable |-> FALSE],
     [typname |-> "time without time zone", elemoid |-> Oid(1083),
      is_collatable |-> FALSE],
     [typname |-> "numeric", elemoid |-> Oid(1700), is_collatable |-> FALSE],
     [typname |-> "integer", elemoid |-> Oid(23), is_collatable |-> FALSE],
     [typname |-> "mytype", elemoid |-> Oid(0), is_collatable |-> TRUE]}

RECURSIVE SeqsUpTo(_, _)
SeqsUpTo(S, n) ==
    IF n = 0 THEN {<<>>}
    ELSE LET shorter == SeqsUpTo(S, n - 1)
         IN  shorter \cup {Append(q, x) : q \in shorter, x \in S}

Success(rows) == [status |-> TRUE, rset |-> [rows |-> rows]]

Failure(msg) == [status |-> FALSE, rset |-> msg]

ErrorMessages == {"server closed the connection unexpectedly"}

TypeReplies ==
    {Success(rows) : rows \in SeqsUpTo(TypeRows, MaxRows)}
        \cup {Failure(msg) : msg \in ErrorMessages}

\* the default the server reports for a setting
DefaultSetting(key) ==
    IF key = "autovacuum_vacuum_threshold" THEN PyStr(<<"5", "0">>)
    ELSE IF key = "autovacuum_vacuum_scale_factor" THEN PyStr(<<"0", ".", "2">>)
    ELSE PyStr(<<"2", "0", "0", "0", "0", "0", "0", "0", "0">>)

\* the rows of the defaults query: one per requested setting
DefaultRows(mapping) ==
    [k \in 1..Len(mapping) |->
        [name |-> mapping[k].key, setting |-> DefaultSetting(mapping[k].key),
         value |-> Absent]]

VacuumReplies(mapping) ==
    {Success(DefaultRows(mapping))} \cup {Failure(msg) : msg \in ErrorMessages}

\* the values an object-level override can have
LiveValues ==
    {PyNone, PyInt(0), PyInt(5), PyStr(<<>>), PyStr(<<"0">>), PyStr(<<"0", ".", "2">>)}

\* the rows of current overrides handed to parse_vacuum_data
LiveSettings(mapping, type) ==
    [{override_key(type, mapping[k].name) : k \in 1..Len(mapping)}
        -> LiveValues]

\* the view is given the manager of the server it works on
SetManager(mgr) ==
    /\ call = Idle
    /\ mgr /= manager
    /\ manager' = mgr
    /\ UNCHANGED <<call, reader>>

GetTypes(condition, add_serials, schema_oid, reply) ==
    /\ call = Idle
    /\ LET out == get_types(reader, manager, condition, add_serials,
                            schema_oid, reply)
       IN  /\ reader' = [data_type_template_path |-> out.path]
           /\ call' = [op |-> "get_types", reply |-> reply,
                       executed |-> out.executed, result |-> out.result]
    /\ UNCHANGED manager

GetVacuumTableSettings(vacuum_fields, reply) ==
    /\ call = Idle
    /\ LET out == get_vacuum_table_settings(vacuum_fields, reply)
       IN  call' = [op |-> "get_vacuum_table_settings",
                    vacuum_fields |-> vacuum_fields, reply |-> reply,
                    executed |-> out.executed, result |-> out.result]
    /\ UNCHANGED <<reader, manager>>

GetVacuumToastSettings(vacuum_fields, reply) ==
    /\ call = Idle
    /\ LET out == get_vacuum_toast_settings(vacuum_fields, reply)
       IN  call' = [op |-> "get_vacuum_toast_settings",
                    vacuum_fields |-> vacuum_fields, reply |-> reply,
                    executed |-> out.executed, result |-> out.result]
    /\ UNCHANGED <<reader, manager>>

ParseVacuumData(vacuum_fields, reply, result, type) ==
    /\ call = Idle
    /\ LET out == parse_vacuum_data(vacuum_fields, reply, result, type)
       IN  call' = [op |-> "parse_vacuum_data",
                    vacuum_fields |-> vacuum_fields, reply |-> reply,
                    live |-> result, type |-> type,
                    executed |-> out.executed, result |-> out.result]
    /\ UNCHANGED <<reader, manager>>

Next ==
    \/ \E mgr \in Managers : SetManager(mgr)
    \/ \E add_serials \in BOOLEAN, reply \in TypeReplies :
            GetTypes("typisdefined", add_serials, "", reply)
    \/ \E vacuum_fields \in VacuumFields :
          \E reply \in VacuumReplies(vacuum_fields.table) :
            GetVacuumTableSettings(vacuum_fields, reply)
    \/ \E vacuum_fields \in VacuumFields :
          \E reply \in VacuumReplies(vacuum_fields.toast) :
            GetVacuumToastSettings(vacuum_fields, reply)
    \/ \E vacuum_fields \in VacuumFields, type \in {"table", "toast"} :
          \E reply \in VacuumReplies(vacuum_fields[type]),
             result \in LiveSettings(vacuum_fields[type], type) :
            ParseVacuumData(vacuum_fields, reply, result, type)
    \/ Return

Spec == Init /\ [][Next]_vars

(***************************************************************************)
(* Properties of the pure routines, checked under PureSpec.                 *)
(***************************************************************************)
\* whether bit k of the non-negative integer x is set
HasBit(x, k) == x % (2 ^ (k + 1)) >= 2 ^ k

OutputFields(d) ==
    <<d.fires, d.is_row_trigger, d.evnt_insert, d.evnt_delete, d.evnt_update,
      d.evnt_truncate>>

\* C1: for every tgtype, trigger_definition sets fires to BEFORE when bit 1
\* is set, otherwise to INSTEAD OF when bit 6 is set, otherwise to AFTER;
\* is_row_trigger, evnt_insert, evnt_delete, evnt_update and evnt_truncate
\* are true exactly when bits 0, 2, 3, 4 and 5 are set; and the bits above
\* bit 6 change no output field.
C1_TriggerDecode ==
    call.op = "trigger_definition" =>
        LET t == call.tgtype
            d == call.data
        IN  /\ d.fires = IF HasBit(t, 1) THEN "BEFORE"
                         ELSE IF HasBit(t, 6) THEN "INSTEAD OF"
                         ELSE "AFTER"
            /\ d.is_row_trigger = HasBit(t, 0)
            /\ d.evnt_insert = HasBit(t, 2)
            /\ d.evnt_delete = HasBit(t, 3)
            /\ d.evnt_update = HasBit(t, 4)
            /\ d.evnt_truncate = HasBit(t, 5)
            /\ OutputFields(d)
                   = OutputFields(trigger_definition([tgtype |-> t % 128]))

\* a trigger with the BEFORE and the INSTEAD bit and a bit above bit 6
C1_Witness ==
    /\ call.op = "trigger_definition"
    /\ call.tgtype = 128 + 64 + 2 + 1
    /\ call.data.fires = "BEFORE"
    /\ call.data.is_row_trigger

\* C2: for every base type name of the known type set, every schema, every
\* number of dimensions and every type modifier, parse_type_name of the
\* name get_full_type formats is the base name followed by the array
\* suffix get_full_type produced, without the length suffix.
C2_RoundTrip ==
    (call.op = "parse_type_name" /\ call.typname \in BaseTypeNames) =>
        call.result = call.typname \o call.parts.array

\* the same round trip for at most one array dimension
C2_RoundTripOneDim ==
    (/\ call.op = "parse_type_name"
     /\ call.typname \in BaseTypeNames
     /\ call.numdims <= 1) =>
        call.result = call.typname \o call.parts.array

KnownIdentifiers == TypesL \cup TypesD \cup TypesP

\* C3 as stated: every identifier outside the enumeration classifies as
\* (False, False, '').
C3_UnknownIsEmpty ==
    (/\ call.op = "get_length_precision"
     /\ call.elemoid_or_name \notin KnownIdentifiers) =>
        call.result = <<FALSE, FALSE, "">>

\* C3 amended: an identifier outside the enumeration has no length and no
\* precision, and its classification is one space when the identifier is
\* truthy (a non-empty name, a non-zero OID) and empty when it is 0 or ''.
C3_UnknownIsBlank ==
    (/\ call.op = "get_length_precision"
     /\ call.elemoid_or_name \notin KnownIdentifiers) =>
        call.result = <<FALSE, FALSE,
                        IF Truthy(call.elemoid_or_name) THEN " " ELSE "">>

\* an unknown non-zero OID classified as one space
C3_Witness ==
    /\ call.op = "get_length_precision"
    /\ call.elemoid_or_name = Oid(23)
    /\ call.result = <<FALSE, FALSE, " ">>

\* the precision and the scale packed in a numeric type modifier
NumericText(typmod) ==
    LET prec == CHOOSE p \in 0..(typmod \div 65536) :
                    \E sc \in 0..65535 : typmod - 4 = (p * 65536) + sc
        scale == (typmod - 4) - (prec * 65536)
    IN  <<"n", "u", "m", "e", "r", "i", "c", "(">> \o IntToStr(prec) \o <<",">> \o IntToStr(scale) \o <<")">>

IsNumericCall ==
    /\ call.op = "get_full_type"
    /\ call.typname = <<"n", "u", "m", "e", "r", "i", "c">>
    /\ call.numdims = 0
    /\ call.typmod /= -1
    /\ call.typmod - 4 >= 0

\* C4 as stated: for numeric without array dimensions and a type modifier
\* other than -1 with typmod - 4 >= 0, get_full_type returns numeric(p,s)
\* with p = (typmod - 4) >> 16 and s = (typmod - 4) & 0xFFFF; typmod 655364
\* in schema public gives numeric(10,4).
C4_NumericTypmodStated ==
    IsNumericCall =>
        /\ call.result = Returned(NumericText(call.typmod))
        /\ (call.typmod = 655364 /\ call.nsp = <<"p", "u", "b", "l", "i", "c">>) =>
               call.result = Returned(<<"n", "u", "m", "e", "r", "i", "c", "(", "1", "0", ",", "4", ")">>)

\* C4 amended: the same decode, where typmod 655364 in schema public gives
\* numeric(10,0), since 655364 - 4 = 10 * 65536 + 0; numeric(10,4) is what
\* typmod 655368 gives.
C4_NumericTypmod ==
    IsNumericCall =>
        /\ call.result = Returned(NumericText(call.typmod))
        /\ (call.typmod = 655364 /\ call.nsp = <<"p", "u", "b", "l", "i", "c">>) =>
               call.result = Returned(<<"n", "u", "m", "e", "r", "i", "c", "(", "1", "0", ",", "0", ")">>)
        /\ (call.typmod = 655368 /\ call.nsp = <<"p", "u", "b", "l", "i", "c">>) =>
               call.result = Returned(<<"n", "u", "m", "e", "r", "i", "c", "(", "1", "0", ",", "4", ")">>)

C4_Witness ==
    /\ IsNumericCall
    /\ call.nsp = <<"p", "u", "b", "l", "i", "c">>
    /\ call.typmod = 655364
    /\ call.result = Returned(<<"n", "u", "m", "e", "r", "i", "c", "(", "1", "0", ",", "0", ")">>)

\* C5: for a definition CREATE RULE r AS ON <EVENT> TO <t> [WHERE <cond>]
\* DO [INSTEAD] <stmts>, parse_rule_definition returns the row with the
\* event capitalised, the condition (or ''), do_instead true exactly when
\* INSTEAD directly follows DO, and the statements, whatever tokens the
\* statements contain.
C5_RuleFields ==
    call.op = "parse_rule_definition" =>
        /\ ~call.result.error
        /\ call.result.event = <<call.event[1]>> \o Lower(Tail(call.event))
        /\ call.result.condition = call.cond
        /\ call.result.do_instead = call.instead
        /\ call.result.statements = call.stmts

\* statements that hold none of the words the patterns look for
PlainStatements ==
    {st \in Statements :
        /\ Find(st, <<" ", "I", "N", "S", "T", "E", "A", "D", " ">>) = -1
        /\ Find(st, <<" ", "T", "O">>) = -1
        /\ Find(st, <<" ", "D", "O">>) = -1}

\* the same fields for statements without those words
C5_RuleFieldsPlain ==
    (call.op = "parse_rule_definition" /\ call.stmts \in PlainStatements) =>
        /\ ~call.result.error
        /\ call.result.event = <<call.event[1]>> \o Lower(Tail(call.event))
        /\ call.result.condition = call.cond
        /\ call.result.do_instead = call.instead
        /\ call.result.statements = call.stmts

\* C7: for a type name schema.name or schema."name" whose schema is the nsp
\* argument, get_full_type returns what it returns for the bare name.
C7_SchemaPrefixStripped ==
    call.op = "get_full_type" =>
        \A bare \in BaseTypeNames :
            (/\ call.nsp /= None
             /\ call.typname \in {call.nsp \o <<".">> \o bare,
                                   call.nsp \o <<".", "\"">> \o bare \o <<"\"">>}) =>
                call.result = get_full_type(call.nsp, bare, FALSE,
                                            call.numdims, call.typmod)

(***************************************************************************)
(* Properties of the routines that run a query, checked under Spec.         *)
(***************************************************************************)
QueryOps ==
    {"get_types", "get_vacuum_table_settings", "get_vacuum_toast_settings",
     "parse_vacuum_data"}

\* C6: in get_types, get_vacuum_table_settings, get_vacuum_toast_settings
\* and parse_vacuum_data the executor is invoked exactly once per call; when
\* it reports failure the call ends with the failure and the executor's
\* message (get_types returns the (status, message) pair, the vacuum
\* routines a server error built from the message), no row is processed and
\* the executor is not invoked again.
C6_ExecutedOnceFailureReturned ==
    call.op \in QueryOps =>
        /\ Len(call.executed) = 1
        /\ ~call.reply.status =>
               IF call.op = "get_types"
                   THEN call.result = <<FALSE, call.reply.rset>>
               ELSE call.result
                        = [raised |-> FALSE, error |-> "",
                           value |-> [error |-> TRUE,
                                      errormsg |-> call.reply.rset]]

\* a get_types call whose query failed
C6_Witness ==
    /\ call.op = "get_types"
    /\ ~call.reply.status
    /\ call.reply.rset \in ErrorMessages
    /\ call.result = <<FALSE, call.reply.rset>>
    /\ Len(call.executed) = 1

\* (length, precision, min_val, max_val) for a classification
EntryFor(typeval) ==
    CASE typeval = "L" -> <<TRUE, FALSE, 1, 2147483647>>
      [] typeval = "D" -> <<TRUE, FALSE, 0, 10>>
      [] typeval = "P" -> <<TRUE, TRUE, 1, 1000>>
      [] OTHER -> <<FALSE, FALSE, 0, 0>>

\* C8: when get_types succeeds it returns one entry per row, in row order,
\* and each entry's (length, precision, min_val, max_val) is
\* (True, False, 1, 2147483647) for a row whose elemoid classifies as 'L',
\* (True, False, 0, 10) for 'D', (True, True, 1, 1000) for 'P' and
\* (False, False, 0, 0) for every other row; so min_val <= max_val.
C8_EntryPerRow ==
    (call.op = "get_types" /\ call.result[1]) =>
        LET rows == call.reply.rset.rows
            res == call.result[2]
        IN  /\ Len(res) = Len(rows)
            /\ \A i \in 1..Len(rows) :
                   /\ res[i].label = rows[i].typname
                   /\ res[i].value = rows[i].typname
                   /\ <<res[i].length, res[i].precision, res[i].min_val,
                        res[i].max_val>>
                          = EntryFor(get_length_precision(rows[i].elemoid)[3])
                   /\ res[i].min_val <= res[i].max_val

\* a successful call whose rows are a time type and then a row without
\* elemoid
C8_Witness ==
    /\ call.op = "get_types"
    /\ call.result[1]
    /\ Len(call.reply.rset.rows) = 2
    /\ call.reply.rset.rows[1].elemoid = Oid(1083)
    /\ call.reply.rset.rows[2].elemoid = Oid(0)
    /\ call.result[2][1].max_val = 10
    /\ call.result[2][2].max_val = 0

\* the override of row i of a parse_vacuum_data call
OverrideOf(i) ==
    LET f == Lookup(call.vacuum_fields[call.type],
                    call.reply.rset.rows[i].name)
    IN  call.live[IF call.type = "table" THEN f.name ELSE "toast_" \o f.name]

ColumnTypeOf(i) ==
    Lookup(call.vacuum_fields[call.type],
           call.reply.rset.rows[i].name).column_type

Falsy == {PyNone, PyInt(0), PyStr(<<>>)}

C9_TableZeroApplied ==
    /\ call.op = "parse_vacuum_data"
    /\ call.type = "table"
    /\ ~call.result.raised
    /\ OverrideOf(1) = PyInt(0)
    /\ call.result.value[1].setting = PyInt(0)

\* C10 as stated: every get_types call builds its query from the template
\* path of the manager's flavor and version at the time of that call.
C10_TemplateFollowsManager ==
    call.op = "get_types" =>
        call.executed[1].template
            = template_path_for(manager) \o <<"/", "g", "e", "t", "_", "t", "y", "p", "e", "s", ".", "s", "q", "l">>

\* C10 amended: the first get_types call on an object stores the template
\* path of the manager's flavor and version at that time in
\* data_type_template_path; every later call on the object builds its query
\* from the stored path, whatever the manager is then, and leaves it as it is.
C10_TemplatePathKept ==
    [][/\ (call.op = "idle" /\ call'.op = "get_types") =>
              /\ reader.data_type_template_path = Unset =>
                     reader'.data_type_template_path
                         = template_path_for(manager)
              /\ call'.executed[1].template
                     = reader'.data_type_template_path \o <<"/", "g", "e", "t", "_", "t", "y", "p", "e", "s", ".", "s", "q", "l">>
       /\ reader.data_type_template_path /= Unset =>
              reader'.data_type_template_path = reader.data_type_template_path
      ]_vars

\* a get_types call that used the path of an earlier manager
C10_Witness ==
    /\ call.op = "get_types"
    /\ manager.server_type = "gpdb"
    /\ reader.data_type_template_path = <<"d", "a", "t", "a", "t", "y", "p", "e", "/", "s", "q", "l", "/", "#", "9", "0", "6", "0", "0", "#">>
    /\ call.executed[1].template = <<"d", "a", "t", "a", "t", "y", "p", "e", "/", "s", "q", "l", "/", "#", "9", "0", "6", "0", "0", "#", "/", "g", "e", "t", "_", "t", "y", "p", "e", "s", ".", "s", "q", "l">>

\* C11 as stated: in get_types the entry of a row depends on that row alone:
\* whenever the query succeeds the call succeeds, and the typval of each
\* entry is the classification of its own row's elemoid, blank ('' or ' ')
\* for a row whose elemoid is empty or zero, be it the first row or a later
\* one.
C11_EntryOfRowAlone ==
    (call.op = "get_types" /\ call.reply.status) =>
        /\ call.result[1]
        /\ \A i \in 1..Len(call.reply.rset.rows) :
               LET elemoid == call.reply.rset.rows[i].elemoid
                   typval == call.result[2][i].typval
               IN  IF Truthy(elemoid)
                       THEN typval = get_length_precision(elemoid)[3]
                   ELSE typval \in {"", " "}

\* the row whose typeval the entry of row i carries: row i when it has an
\* elemoid, else the nearest earlier row that has one, 0 when there is none
RECURSIVE AssigningRow(_, _)
AssigningRow(rows, i) ==
    IF i = 0 THEN 0
    ELSE IF Truthy(rows[i].elemoid) THEN i
    ELSE AssigningRow(rows, i - 1)

\* what the code does: the call fails with the unbound-local message when a
\* row without elemoid comes before every row with one, and otherwise the
\* typval of each entry is the one of the nearest row at or before it that
\* has an elemoid.
C11_TypevalOfEarlierRow ==
    (call.op = "get_types" /\ call.reply.status) =>
        LET rows == call.reply.rset.rows
        IN  IF \E i \in 1..Len(rows) : AssigningRow(rows, i) = 0
                THEN call.result = <<FALSE, UnboundLocalError>>
            ELSE /\ call.result[1]
                 /\ \A i \in 1..Len(rows) :
                        call.result[2][i].typval
                            = get_length_precision(
                                  rows[AssigningRow(rows, i)].elemoid)[3]

\* a successful call where the row without elemoid carries the 'L' of the
\* row before it
C11_CarriedOver ==
    /\ call.op = "get_types"
    /\ call.result[1]
    /\ Len(call.reply.rset.rows) = 2
    /\ call.reply.rset.rows[1].elemoid = Oid(1560)
    /\ call.reply.rset.rows[2].elemoid = Oid(0)
    /\ call.result[2][2].typval = "L"

\* a call that fails because its first row has no elemoid
C11_FirstRowFails ==
    /\ call.op = "get_types"
    /\ call.reply.status
    /\ Len(call.reply.rset.rows) >= 1
    /\ call.reply.rset.rows[1].elemoid = Oid(0)
    /\ call.result = <<FALSE, UnboundLocalError>>

\* the toast sub-mapping entry for the setting name of row i of the reply
ToastEntryOf(i) ==
    Lookup(call.vacuum_fields.toast, call.reply.rset.rows[i].name)

\* C12 as stated: get_vacuum_toast_settings sets each returned row's name,
\* label and column_type from the 'toast' sub-mapping entry for that row's
\* setting name, so a call whose query succeeds returns its rows, with the
\* toast column type, also when a name is absent from the 'table'
\* sub-mapping or has another column type there.
C12_ToastColumnType ==
    (call.op = "get_vacuum_toast_settings" /\ call.reply.status) =>
        /\ ~call.result.raised
        /\ \A i \in 1..Len(call.reply.rset.rows) :
               LET row == call.result.value.rows[i]
               IN  /\ row.name = ToastEntryOf(i).name
                   /\ row.label = ToastEntryOf(i).label
                   /\ row.column_type = ToastEntryOf(i).column_type

\* what the code does: name and label are the toast entry's, column_type is
\* the one of the 'table' sub-mapping entry of the same setting name, and
\* the call ends with KeyError when the 'table' sub-mapping has no such
\* entry.
C12_TableColumnType ==
    (call.op = "get_vacuum_toast_settings" /\ call.reply.status) =>
        LET rows == call.reply.rset.rows
            table == call.vacuum_fields.table
        IN  IF \E i \in 1..Len(rows) : ~HasKey(table, rows[i].name)
                THEN call.result = Exc(KeyError)
            ELSE /\ ~call.result.raised
                 /\ \A i \in 1..Len(rows) :
                        LET row == call.result.value.rows[i]
                        IN  /\ row.name = ToastEntryOf(i).name
                            /\ row.label = ToastEntryOf(i).label
                            /\ row.column_type
                                   = Lookup(table, rows[i].name).column_type

\* a call that ends with KeyError on a setting only the toast sub-mapping has
C12_KeyErrorRaised ==
    /\ call.op = "get_vacuum_toast_settings"
    /\ call.reply.status
    /\ HasKey(call.vacuum_fields.toast, "autovacuum_freeze_max_age")
    /\ ~HasKey(call.vacuum_fields.table, "autovacuum_freeze_max_age")
    /\ call.result = Exc(KeyError)

\* a call that returns 'number' for a setting the toast sub-mapping types as
\* 'integer'
C12_TableTypeReturned ==
    /\ call.op = "get_vacuum_toast_settings"
    /\ call.reply.status
    /\ ~call.result.raised
    /\ ToastEntryOf(2).column_type = "integer"
    /\ call.result.value.rows[2].column_type = "number"

====
